---- MODULE Spec2Model ----
(***************************************************************************)
(* Model of sentry/services/hybrid_cloud/app/__init__.py: the RPC models   *)
(* of the "app" domain, the serialization helpers of AppService and the    *)
(* process-wide app_service delegation handle.                             *)
(*                                                                         *)
(* A behaviour is a sequence of calls.  Each call is one step from the     *)
(* idle position to the returned position, holding the call (operation and *)
(* arguments) and what it returned; Return drops the result.               *)
(*                                                                         *)
(* Python values: Optional[T] is <<>> for None and <<v>> for a value v; a  *)
(* List is a sequence; a scope is the record [type, text] so that objects  *)
(* that are not str can be told from their "%s" rendering.  A bool or str *)
(* result is held as [bool |-> b] or [str |-> s].                          *)
(***************************************************************************)
EXTENDS Integers, Sequences, FiniteSets, TLC

VARIABLES pc, call, ret, silo_mode, app_service, dispatched

vars == <<pc, call, ret, silo_mode, app_service, dispatched>>

(***************************************************************************)
(* Bounds of the input universes.                                          *)
(***************************************************************************)
MaxId == 2
MaxVariant == 2
MaxUnknownStatus == 1
MaxScopes == 2
MaxLen == 2

Ids == 1..MaxId
Variants == 0..MaxVariant

None == <<>>
Some(v) == <<v>>

\* What a call hands back: nothing yet, a bool, a str, or a record as it is.
Nothing == [nothing |-> TRUE]
Bool(b) == [bool |-> b]
Str(s) == [str |-> s]

(***************************************************************************)
(* SentryAppStatus: the four known status constants, and status values     *)
(* that match none of them (the record's own default "" is one).           *)
(***************************************************************************)
PUBLISHED == "published"
UNPUBLISHED == "unpublished"
INTERNAL == "internal"
PUBLISH_REQUEST_INPROGRESS == "publish_request_inprogress"

KnownStatuses == {PUBLISHED, UNPUBLISHED, INTERNAL, PUBLISH_REQUEST_INPROGRESS}
UnknownStatuses == {""} \cup {"status" \o ToString(i) : i \in 1..MaxUnknownStatus}
Statuses == KnownStatuses \cup UnknownStatuses

SentryAppInstallationStatus_PENDING == "PENDING"
InstallationStatuses == {SentryAppInstallationStatus_PENDING, "INSTALLED"}

(***************************************************************************)
(* Scopes.  A str scope and an object that is not a str but renders to the *)
(* same text are different values.                                         *)
(***************************************************************************)
PyStr(t) == [type |-> "str", text |-> t]
PyObj(t) == [type |-> "object", text |-> t]
ScopeNames == {"scope" \o ToString(i) : i \in 1..MaxScopes}
StrScopes == {PyStr(t) : t \in ScopeNames}
ScopeValues == StrScopes \cup {PyObj(t) : t \in ScopeNames}

\* "%s" % scope: a str renders to itself, any other object to the str of its text.
Format(scope) == PyStr(scope.text)

SeqsUpTo(S, n) == UNION {[1..k -> S] : k \in 0..n}
ScopeLists == SeqsUpTo(StrScopes, MaxLen)

\* set(xs) of a list xs
ToSet(xs) == {xs[i] : i \in 1..Len(xs)}

(***************************************************************************)
(* The storage-backed entities handed to the serialization helpers.        *)
(***************************************************************************)
ScopeListOf(v) ==
    LET names == [i \in 1..MaxScopes |-> PyStr("scope" \o ToString(i))]
    IN  SubSeq(names, 1, IF v < MaxScopes THEN v ELSE MaxScopes)

MkApiApplication(i, v) ==
    [id |-> 10 + i,
     client_id |-> "client" \o ToString(i),
     client_secret |-> IF v = 0 THEN "" ELSE "secret" \o ToString(v)]

ApiApplications == {MkApiApplication(i, v) : i \in Ids, v \in Variants}

MkApp(i, st, v) ==
    [id |-> i,
     scope_list |-> ScopeListOf(v),
     application_id |-> 10 + i,
     application |-> MkApiApplication(i, v),
     proxy_user_id |-> IF v = 0 THEN None ELSE Some(100 + v),
     owner_id |-> 20 + v,
     name |-> "name" \o ToString(i),
     slug |-> "slug" \o ToString(v),
     uuid |-> "uuid" \o ToString(i),
     events |-> IF v % 2 = 0 THEN <<>> ELSE <<"issue.created">>,
     webhook_url |-> IF v % 2 = 0 THEN None ELSE Some("https://hook/" \o ToString(v)),
     status |-> st]

SentryApps == {MkApp(i, st, v) : i \in Ids, st \in Statuses, v \in Variants}

SentryAppInstallations ==
    {[id |-> 40 + i,
      organization_id |-> 30 + i,
      status |-> s,
      sentry_app |-> a,
      date_deleted |-> d,
      uuid |-> "install" \o ToString(i)]
        : i \in Ids, s \in InstallationStatuses, a \in SentryApps,
          d \in {None, Some("2023-01-01T00:00:00")}}

(***************************************************************************)
(* The RPC models and their defaults.                                      *)
(***************************************************************************)
RpcApiApplication == [id |-> -1, client_id |-> "", client_secret |-> ""]

\* RpcSentryApp with is_internal defaulting to False like the other flags.
RpcSentryApp_internal_off ==
    [id |-> -1, scope_list |-> <<>>, application_id |-> -1,
     application |-> RpcApiApplication, proxy_user_id |-> None, owner_id |-> -1,
     name |-> "", slug |-> "", uuid |-> "", events |-> <<>>, webhook_url |-> None,
     is_published |-> FALSE, is_unpublished |-> FALSE, is_internal |-> FALSE,
     is_publish_request_inprogress |-> FALSE, status |-> ""]

RpcSentryApp ==
    [id |-> -1,
     scope_list |-> <<>>,
     application_id |-> -1,
     application |-> RpcApiApplication,
     proxy_user_id |-> None,
     owner_id |-> -1,
     name |-> "",
     slug |-> "",
     uuid |-> "",
     events |-> <<>>,
     webhook_url |-> None,
     is_published |-> FALSE,
     is_unpublished |-> FALSE,
     is_internal |-> TRUE,
     is_publish_request_inprogress |-> FALSE,
     status |-> ""]

(***************************************************************************)
(* Serialization helpers of AppService.                                    *)
(***************************************************************************)
\* serialize_api_application leaving client_secret at its default.
serialize_api_application_redacted(api_app) ==
    [id |-> api_app.id, client_id |-> api_app.client_id, client_secret |-> ""]

serialize_api_application(api_app) ==
    [id |-> api_app.id,
     client_id |-> api_app.client_id,
     client_secret |-> api_app.client_secret]

\* serialize_sentry_app taking every status but PUBLISHED for unpublished.
serialize_sentry_app_not_published(app) ==
    [id |-> app.id, scope_list |-> app.scope_list,
     application_id |-> app.application_id,
     application |-> serialize_api_application(app.application),
     proxy_user_id |-> app.proxy_user_id, owner_id |-> app.owner_id,
     name |-> app.name, slug |-> app.slug, uuid |-> app.uuid,
     events |-> app.events, webhook_url |-> app.webhook_url,
     is_published |-> app.status = PUBLISHED,
     is_unpublished |-> app.status # PUBLISHED,
     is_internal |-> app.status = INTERNAL,
     is_publish_request_inprogress |-> app.status = PUBLISH_REQUEST_INPROGRESS,
     status |-> app.status]

\* serialize_sentry_app not passing is_internal, which then keeps its default.
serialize_sentry_app_internal_default(app) ==
    [id |-> app.id, scope_list |-> app.scope_list,
     application_id |-> app.application_id,
     application |-> serialize_api_application(app.application),
     proxy_user_id |-> app.proxy_user_id, owner_id |-> app.owner_id,
     name |-> app.name, slug |-> app.slug, uuid |-> app.uuid,
     events |-> app.events, webhook_url |-> app.webhook_url,
     is_published |-> app.status = PUBLISHED,
     is_unpublished |-> app.status = UNPUBLISHED,
     is_internal |-> TRUE,
     is_publish_request_inprogress |-> app.status = PUBLISH_REQUEST_INPROGRESS,
     status |-> app.status]

serialize_sentry_app(app) ==
    [id |-> app.id,
     scope_list |-> app.scope_list,
     application_id |-> app.application_id,
     application |-> serialize_api_application(app.application),
     proxy_user_id |-> app.proxy_user_id,
     owner_id |-> app.owner_id,
     name |-> app.name,
     slug |-> app.slug,
     uuid |-> app.uuid,
     events |-> app.events,
     webhook_url |-> app.webhook_url,
     is_published |-> app.status = PUBLISHED,
     is_unpublished |-> app.status = UNPUBLISHED,
     is_internal |-> app.status = INTERNAL,
     is_publish_request_inprogress |-> app.status = PUBLISH_REQUEST_INPROGRESS,
     status |-> app.status]

\* serialize_sentry_app_installation ignoring its app argument.
serialize_sentry_app_installation_own_app(installation, app) ==
    [id |-> installation.id,
     organization_id |-> installation.organization_id,
     status |-> installation.status,
     sentry_app |-> serialize_sentry_app(installation.sentry_app),
     date_deleted |-> installation.date_deleted,
     uuid |-> installation.uuid]

\* serialize_sentry_app_installation not passing date_deleted.
serialize_sentry_app_installation_no_date(installation, app) ==
    [id |-> installation.id,
     organization_id |-> installation.organization_id,
     status |-> installation.status,
     sentry_app |-> serialize_sentry_app(
                        IF app = None THEN installation.sentry_app ELSE app[1]),
     date_deleted |-> None,
     uuid |-> installation.uuid]

\* app is Optional[SentryApp]: None when the argument is left out.
serialize_sentry_app_installation(installation, app) ==
    LET used == IF app = None THEN installation.sentry_app ELSE app[1]
    IN  [id |-> installation.id,
         organization_id |-> installation.organization_id,
         status |-> installation.status,
         sentry_app |-> serialize_sentry_app(used),
         date_deleted |-> installation.date_deleted,
         uuid |-> installation.uuid]

(***************************************************************************)
(* Methods of RpcSentryApp.                                                *)
(***************************************************************************)
\* show_auth_info comparing against access.scopes as they are.
show_auth_info_unrendered(self, access) ==
    ToSet(self.scope_list) \subseteq access.scopes

show_auth_info(self, access) ==
    LET encoded_scopes == {Format(scope) : scope \in access.scopes}
    IN  ToSet(self.scope_list) \subseteq encoded_scopes

\* slug_for_metrics testing is_unpublished first.
slug_for_metrics_unpublished_first(self) ==
    IF self.is_unpublished THEN "unpublished"
    ELSE IF self.is_internal THEN "internal"
    ELSE self.slug

slug_for_metrics(self) ==
    IF self.is_internal THEN "internal"
    ELSE IF self.is_unpublished THEN "unpublished"
    ELSE self.slug

(***************************************************************************)
(* RpcSentryAppEventData and the objects from_event adapts.  An object of  *)
(* another class exposes id, label, the actionType property and the        *)
(* is_enabled() method; the dataclass keeps action_type and enabled and    *)
(* exposes them through the same two accessors.                            *)
(***************************************************************************)
RpcSentryAppEventData ==
    [class |-> "RpcSentryAppEventData", id |-> "", label |-> "",
     action_type |-> "", enabled |-> TRUE]

actionType(self) ==
    IF self.class = "RpcSentryAppEventData" THEN self.action_type ELSE self.actionType

is_enabled(self) ==
    IF self.class = "RpcSentryAppEventData" THEN self.enabled ELSE self.is_enabled

\* from_event not passing enabled, which then keeps its default.
from_event_enabled_default(data_interface) ==
    [class |-> "RpcSentryAppEventData",
     id |-> data_interface.id,
     label |-> data_interface.label,
     action_type |-> actionType(data_interface),
     enabled |-> TRUE]

from_event(data_interface) ==
    [class |-> "RpcSentryAppEventData",
     id |-> data_interface.id,
     label |-> data_interface.label,
     action_type |-> actionType(data_interface),
     enabled |-> is_enabled(data_interface)]

ExternalEvents ==
    {[class |-> "external", id |-> "event" \o ToString(i), label |-> "label" \o ToString(v),
      actionType |-> "action" \o ToString(w), is_enabled |-> e]
        : i \in Ids, v \in Variants, w \in Variants, e \in BOOLEAN}

EventSources ==
    ExternalEvents \cup {RpcSentryAppEventData} \cup {from_event(d) : d \in ExternalEvents}

(***************************************************************************)
(* The delegation handle.  A process runs in one silo mode; the handle     *)
(* maps each mode to the implementation that serves calls in it.           *)
(***************************************************************************)
SiloModes == {"CONTROL", "REGION"}

\* AppService declared local to the region silo.
local_mode_region == "REGION"

local_mode == "CONTROL"

get_local_implementation == "DatabaseBackedAppService"

create_delegation ==
    [mode \in SiloModes |->
        IF mode = local_mode THEN get_local_implementation ELSE "RemoteDispatch"]

RpcMethods ==
    {"serialize_many", "get_many", "find_installation_by_proxy_user",
     "get_installed_for_organization", "get_sentry_app_by_slug",
     "find_alertable_services", "find_service_hook_sentry_app",
     "get_custom_alert_rule_actions", "find_app_components",
     "get_related_sentry_app_components", "trigger_sentry_app_action_creators"}

(***************************************************************************)
(* Receivers and arguments of the RpcSentryApp methods.                    *)
(***************************************************************************)
SerializedApps == {serialize_sentry_app(a) : a \in SentryApps}

FlaggedApps ==
    {[RpcSentryApp EXCEPT !.slug = "slug" \o ToString(v),
                          !.is_published = f[1], !.is_unpublished = f[2],
                          !.is_internal = f[3], !.is_publish_request_inprogress = f[4]]
        : v \in Variants, f \in [1..4 -> BOOLEAN]}

ScopedApps == {[RpcSentryApp EXCEPT !.scope_list = sl] : sl \in ScopeLists}

Accesses == {[scopes |-> S] : S \in SUBSET ScopeValues}

(***************************************************************************)
(* The calls.                                                              *)
(***************************************************************************)
Init ==
    /\ pc = "idle"
    /\ call = [op |-> "idle"]
    /\ ret = Nothing
    /\ silo_mode \in SiloModes
    /\ app_service = create_delegation
    /\ dispatched = "none"

NewRpcSentryApp ==
    /\ pc = "idle"
    /\ pc' = "returned"
    /\ call' = [op |-> "RpcSentryApp"]
    /\ ret' = RpcSentryApp
    /\ UNCHANGED <<silo_mode, app_service, dispatched>>

SerializeApiApplication ==
    /\ pc = "idle"
    /\ \E api_app \in ApiApplications :
        /\ call' = [op |-> "serialize_api_application", api_app |-> api_app]
        /\ ret' = serialize_api_application(api_app)
    /\ pc' = "returned"
    /\ UNCHANGED <<silo_mode, app_service, dispatched>>

SerializeSentryApp ==
    /\ pc = "idle"
    /\ \E app \in SentryApps :
        /\ call' = [op |-> "serialize_sentry_app", app |-> app]
        /\ ret' = serialize_sentry_app(app)
    /\ pc' = "returned"
    /\ UNCHANGED <<silo_mode, app_service, dispatched>>

SerializeSentryAppInstallation ==
    /\ pc = "idle"
    /\ \E installation \in SentryAppInstallations :
        \E app \in {None} \cup {Some(a) : a \in SentryApps} :
            /\ call' = [op |-> "serialize_sentry_app_installation",
                        installation |-> installation, app |-> app]
            /\ ret' = serialize_sentry_app_installation(installation, app)
    /\ pc' = "returned"
    /\ UNCHANGED <<silo_mode, app_service, dispatched>>

SlugForMetrics ==
    /\ pc = "idle"
    /\ \E self \in FlaggedApps \cup SerializedApps :
        /\ call' = [op |-> "slug_for_metrics", self |-> self]
        /\ ret' = Str(slug_for_metrics(self))
    /\ pc' = "returned"
    /\ UNCHANGED <<silo_mode, app_service, dispatched>>

ShowAuthInfo ==
    /\ pc = "idle"
    /\ \E self \in ScopedApps \cup SerializedApps :
        \E access \in Accesses :
            /\ call' = [op |-> "show_auth_info", self |-> self, access |-> access]
            /\ ret' = Bool(show_auth_info(self, access))
    /\ pc' = "returned"
    /\ UNCHANGED <<silo_mode, app_service, dispatched>>

FromEvent ==
    /\ pc = "idle"
    /\ \E data_interface \in EventSources :
        /\ call' = [op |-> "from_event", data_interface |-> data_interface]
        /\ ret' = from_event(data_interface)
    /\ pc' = "returned"
    /\ UNCHANGED <<silo_mode, app_service, dispatched>>

\* A call of an rpc method through the handle: the handle is read, and the
\* implementation registered for the process's silo mode serves the call.
RpcCall ==
    /\ pc = "idle"
    /\ \E method \in RpcMethods : call' = [op |-> method]
    /\ pc' = "returned"
    /\ ret' = Nothing
    /\ dispatched' = app_service[silo_mode]
    /\ UNCHANGED <<silo_mode, app_service>>

Return ==
    /\ pc = "returned"
    /\ pc' = "idle"
    /\ call' = [op |-> "idle"]
    /\ ret' = Nothing
    /\ dispatched' = "none"
    /\ UNCHANGED <<silo_mode, app_service>>

Next ==
    \/ NewRpcSentryApp
    \/ SerializeApiApplication
    \/ SerializeSentryApp
    \/ SlugForMetrics
    \/ ShowAuthInfo
    \/ FromEvent
    \/ RpcCall
    \/ SerializeSentryAppInstallation
    \/ Return

Spec == Init /\ [][Next]_vars

(***************************************************************************)
(* Vocabulary of the properties.                                           *)
(***************************************************************************)
FlagNames ==
    {"is_published", "is_unpublished", "is_internal", "is_publish_request_inprogress"}

TrueFlags(r) == {f \in FlagNames : r[f]}

FlagOfStatus(st) ==
    CASE st = PUBLISHED -> "is_published"
      [] st = UNPUBLISHED -> "is_unpublished"
      [] st = INTERNAL -> "is_internal"
      [] st = PUBLISH_REQUEST_INPROGRESS -> "is_publish_request_inprogress"

ReturnedFrom(op) == pc = "returned" /\ call.op = op

\* C1: for an app whose status is one of the four known constants, the
\* record returned by serialize_sentry_app has exactly one publication flag
\* true, the one matching the constant, and its status is the app's status.
C1_KnownStatusOneFlag ==
    (ReturnedFrom("serialize_sentry_app") /\ call.app.status \in KnownStatuses)
        => /\ TrueFlags(ret) = {FlagOfStatus(call.app.status)}
           /\ Cardinality(TrueFlags(ret)) = 1
           /\ ret.status = call.app.status

C1_Witness ==
    /\ ReturnedFrom("serialize_sentry_app")
    /\ call.app.status = PUBLISH_REQUEST_INPROGRESS
    /\ ret.is_publish_request_inprogress
    /\ ~ret.is_internal

\* C2: for an app whose status is none of the four known constants,
\* serialize_sentry_app returns a record with all four publication flags
\* false and the status of the app unchanged.
C2_UnknownStatusNoFlag ==
    (ReturnedFrom("serialize_sentry_app") /\ call.app.status \notin KnownStatuses)
        => /\ TrueFlags(ret) = {}
           /\ ret.status = call.app.status

C2_Witness ==
    /\ ReturnedFrom("serialize_sentry_app")
    /\ call.app.status \notin KnownStatuses
    /\ call.app.status # ""
    /\ ret.status = call.app.status
    /\ TrueFlags(ret) = {}

\* C3 as stated: every record that is default-constructed or produced by
\* serialize_sentry_app from any app has exactly one publication flag true.
C3_ExactlyOneFlag ==
    (ReturnedFrom("RpcSentryApp") \/ ReturnedFrom("serialize_sentry_app"))
        => Cardinality(TrueFlags(ret)) = 1

\* C3 as amended: such a record has at most one publication flag true; it
\* has exactly one when it is default-constructed or when the app's status
\* is one of the four known constants, and none otherwise.
C3_AtMostOneFlag ==
    /\ ReturnedFrom("RpcSentryApp") => TrueFlags(ret) = {"is_internal"}
    /\ ReturnedFrom("serialize_sentry_app")
        => /\ Cardinality(TrueFlags(ret)) <= 1
           /\ (Cardinality(TrueFlags(ret)) = 1) = (call.app.status \in KnownStatuses)

C3_Witness ==
    /\ ReturnedFrom("RpcSentryApp")
    /\ Cardinality(TrueFlags(ret)) = 1
    /\ ret.status \notin KnownStatuses

\* C4: with an explicit app argument, serialize_sentry_app_installation
\* embeds serialize_sentry_app of that app, also when the installation is
\* associated with another app, and the result does not depend on the
\* installation's own association.
C4_ExplicitAppEmbedded ==
    (ReturnedFrom("serialize_sentry_app_installation") /\ call.app # None)
        => /\ ret.sentry_app = serialize_sentry_app(call.app[1])
           /\ \A other \in SentryApps :
                serialize_sentry_app_installation(
                    [call.installation EXCEPT !.sentry_app = other], call.app) = ret

C4_Witness ==
    /\ ReturnedFrom("serialize_sentry_app_installation")
    /\ call.app # None
    /\ call.app[1] # call.installation.sentry_app
    /\ ret.sentry_app # serialize_sentry_app(call.installation.sentry_app)
    /\ ret.sentry_app = serialize_sentry_app(call.app[1])

\* C5: without an app argument, serialize_sentry_app_installation embeds
\* serialize_sentry_app of the installation's own app, and id,
\* organization_id, status, date_deleted and uuid are the installation's.
C5_OwnAppEmbedded ==
    (ReturnedFrom("serialize_sentry_app_installation") /\ call.app = None)
        => /\ ret.sentry_app = serialize_sentry_app(call.installation.sentry_app)
           /\ ret.id = call.installation.id
           /\ ret.organization_id = call.installation.organization_id
           /\ ret.status = call.installation.status
           /\ ret.date_deleted = call.installation.date_deleted
           /\ ret.uuid = call.installation.uuid

C5_Witness ==
    /\ ReturnedFrom("serialize_sentry_app_installation")
    /\ call.app = None
    /\ call.installation.date_deleted # None
    /\ ret.date_deleted = call.installation.date_deleted
    /\ ret.sentry_app.slug = call.installation.sentry_app.slug

\* C6: slug_for_metrics is "internal" when is_internal is true whatever the
\* other flags, "unpublished" when is_internal is false and is_unpublished
\* is true, and the record's own slug when both are false; so the record
\* serialized from a PUBLISHED app has its own slug as metrics slug.
C6_SlugForMetrics ==
    /\ ReturnedFrom("slug_for_metrics")
        => /\ call.self.is_internal => ret.str = "internal"
           /\ (~call.self.is_internal /\ call.self.is_unpublished)
                => ret.str = "unpublished"
           /\ (~call.self.is_internal /\ ~call.self.is_unpublished)
                => ret.str = call.self.slug
    /\ (ReturnedFrom("serialize_sentry_app") /\ call.app.status = PUBLISHED)
        => slug_for_metrics(ret) = call.app.slug

C6_Witness ==
    /\ ReturnedFrom("slug_for_metrics")
    /\ call.self.is_internal
    /\ call.self.is_unpublished
    /\ call.self.slug # ""
    /\ ret.str = "internal"

\* C8: serialize_api_application copies id, client_id and client_secret of
\* its input, and serialize_sentry_app copies id, scope_list,
\* application_id, proxy_user_id, owner_id, name, slug, uuid, events and
\* webhook_url of the app and embeds serialize_api_application of the app's
\* application; the result is a function of the input alone.
C8_FieldCopies ==
    /\ ReturnedFrom("serialize_api_application")
        => /\ ret.id = call.api_app.id
           /\ ret.client_id = call.api_app.client_id
           /\ ret.client_secret = call.api_app.client_secret
    /\ ReturnedFrom("serialize_sentry_app")
        => /\ ret.id = call.app.id
           /\ ret.scope_list = call.app.scope_list
           /\ ret.application_id = call.app.application_id
           /\ ret.proxy_user_id = call.app.proxy_user_id
           /\ ret.owner_id = call.app.owner_id
           /\ ret.name = call.app.name
           /\ ret.slug = call.app.slug
           /\ ret.uuid = call.app.uuid
           /\ ret.events = call.app.events
           /\ ret.webhook_url = call.app.webhook_url
           /\ ret.application = serialize_api_application(call.app.application)
           /\ ret.application.id = call.app.application.id
           /\ ret.application.client_id = call.app.application.client_id
           /\ ret.application.client_secret = call.app.application.client_secret
           /\ \A other \in SentryApps :
                other = call.app => serialize_sentry_app(other) = ret

C8_Witness ==
    /\ ReturnedFrom("serialize_sentry_app")
    /\ call.app.application.client_secret # ""
    /\ ret.application.client_secret = call.app.application.client_secret
    /\ call.app.proxy_user_id # None
    /\ call.app.events # <<>>

\* C9: from_event returns a record whose id, label, actionType and
\* is_enabled() are those of the source, and applying from_event to its own
\* result returns that result again.
C9_FromEvent ==
    ReturnedFrom("from_event")
        => /\ ret.id = call.data_interface.id
           /\ ret.label = call.data_interface.label
           /\ actionType(ret) = actionType(call.data_interface)
           /\ is_enabled(ret) = is_enabled(call.data_interface)
           /\ from_event(ret) = ret

C9_Witness ==
    /\ ReturnedFrom("from_event")
    /\ call.data_interface.class = "external"
    /\ ~call.data_interface.is_enabled
    /\ ~ret.enabled
    /\ ret.action_type = call.data_interface.actionType

\* C10 as stated: show_auth_info(access) is true if and only if every scope
\* of scope_list is an element of access.scopes.
C10_Containment ==
    ReturnedFrom("show_auth_info")
        => ret.bool = (ToSet(call.self.scope_list) \subseteq call.access.scopes)

\* C10 as amended: show_auth_info(access) is true if and only if every scope
\* of scope_list is the "%s" rendering of an element of access.scopes, which
\* is membership in access.scopes when all of access.scopes are str; it is
\* true for every access when scope_list is empty, and adding scopes to
\* access never turns a true result into false.
C10_RenderedContainment ==
    ReturnedFrom("show_auth_info")
        => /\ ret.bool = (\A s \in ToSet(call.self.scope_list) :
                            \E a \in call.access.scopes : Format(a) = s)
           /\ call.access.scopes \subseteq StrScopes
                => ret.bool = (ToSet(call.self.scope_list) \subseteq call.access.scopes)
           /\ call.self.scope_list = <<>> => ret.bool
           /\ ret.bool => \A more \in Accesses :
                        call.access.scopes \subseteq more.scopes
                            => show_auth_info(call.self, more)

C10_Witness ==
    /\ ReturnedFrom("show_auth_info")
    /\ call.self.scope_list # <<>>
    /\ ret.bool
    /\ ~(ToSet(call.self.scope_list) \subseteq call.access.scopes)

\* C7: the app_service handle is never reassigned and the process's silo
\* mode never changes; every call through the handle is served by the local
\* implementation exactly when the silo mode is CONTROL and by remote
\* dispatch otherwise.
C7_Delegation ==
    [][/\ app_service' = app_service
       /\ silo_mode' = silo_mode
       /\ (pc' = "returned" /\ call'.op \in RpcMethods)
            => /\ (dispatched' = "DatabaseBackedAppService") = (silo_mode = "CONTROL")
               /\ (dispatched' = "RemoteDispatch") = (silo_mode # "CONTROL")]_vars

C7_Witness ==
    /\ pc = "returned"
    /\ call.op \in RpcMethods
    /\ silo_mode = "CONTROL"
    /\ dispatched = "DatabaseBackedAppService"

====
